---------------------------- MODULE Spec2Model ----------------------------
(***************************************************************************)
(* Model of doc/build.py: the documentation build helper.                  *)
(*                                                                         *)
(* A Python string is modelled as a sequence of atoms.  A version string   *)
(* is a sequence of single characters ("4", ".", "1", "5", ...), so that   *)
(* LooseVersion's tokenizer is computed; a path is a sequence of path      *)
(* atoms in which "/" is the separator.  An optional value (None or a      *)
(* value) is a sequence of length 0 or 1.                                   *)
(***************************************************************************)
EXTENDS Integers, Sequences, FiniteSets, TLC

\* ------------------------------------------------------------------ strings

None == <<>>

Some(v) == <<v>>

\* Python truthiness of an optional string: None and '' are both false.
Truthy(opt) == opt # None /\ opt[1] # <<>>

Last(s) == s[Len(s)]

RECURSIVE Reverse(_)
Reverse(s) == IF s = <<>> THEN <<>> ELSE Reverse(Tail(s)) \o <<Head(s)>>

\* sep.join(items): the items concatenated with sep between neighbours.
RECURSIVE StrJoin(_, _)
StrJoin(sep, items) ==
    IF items = <<>> THEN <<>>
    ELSE IF Len(items) = 1 THEN items[1]
    ELSE items[1] \o sep \o StrJoin(sep, Tail(items))

\* s[-n:] of a Python list.
LastN(s, n) == IF Len(s) <= n THEN s ELSE SubSeq(s, Len(s) - n + 1, Len(s))

\* ------------------------------------------------------------------ os.path

Sep == "/"

\* os.path.basename(p): what follows the last "/".
RECURSIVE Basename(_)
Basename(p) ==
    IF p = <<>> THEN <<>>
    ELSE IF Last(p) = Sep THEN <<>>
    ELSE Basename(SubSeq(p, 1, Len(p) - 1)) \o <<Last(p)>>

\* os.path.isabs(p)
IsAbs(p) == p # <<>> /\ p[1] = Sep

\* os.path.join(a, b)
PathJoin(a, b) ==
    IF IsAbs(b) THEN b
    ELSE IF a = <<>> \/ Last(a) = Sep THEN a \o b
    ELSE a \o <<Sep>> \o b

\* ------------------------------------------------------------------ LooseVersion

Digits == <<"0", "1", "2", "3", "4", "5", "6", "7", "8", "9">>

Letters == <<"a", "b", "c", "d", "e", "f", "g", "h", "i", "j", "k", "l", "m",
             "n", "o", "p", "q", "r", "s", "t", "u", "v", "w", "x", "y", "z">>

IsDigit(c) == \E i \in 1..Len(Digits) : Digits[i] = c

IsAlpha(c) == \E i \in 1..Len(Letters) : Letters[i] = c

DigitVal(c) == (CHOOSE i \in 1..Len(Digits) : Digits[i] = c) - 1

Ord(c) == CHOOSE i \in 1..Len(Letters) : Letters[i] = c

\* int(x) of a run of digits.
RECURSIVE IntOf(_)
IntOf(run) ==
    IF run = <<>> THEN 0
    ELSE 10 * IntOf(SubSeq(run, 1, Len(run) - 1)) + DigitVal(Last(run))

\* Length of the longest prefix of s whose characters all satisfy the class.
RECURSIVE DigitRun(_)
DigitRun(s) == IF s # <<>> /\ IsDigit(Head(s)) THEN 1 + DigitRun(Tail(s)) ELSE 0

RECURSIVE AlphaRun(_)
AlphaRun(s) == IF s # <<>> /\ IsAlpha(Head(s)) THEN 1 + AlphaRun(Tail(s)) ELSE 0

IntComp(n) == [kind |-> "int", n |-> n, s |-> <<>>]

StrComp(s) == [kind |-> "str", n |-> 0, s |-> s]

\* LooseVersion.parse: split on (\d+ | [a-z]+ | \.), drop "." and empty
\* pieces, convert the digit runs with int().
RECURSIVE ParseVersion(_)
ParseVersion(s) ==
    IF s = <<>> THEN <<>>
    ELSE IF Head(s) = "." THEN ParseVersion(Tail(s))
    ELSE IF IsDigit(Head(s))
         THEN LET k == DigitRun(s)
              IN  <<IntComp(IntOf(SubSeq(s, 1, k)))>>
                      \o ParseVersion(SubSeq(s, k + 1, Len(s)))
    ELSE LET k == AlphaRun(s)
         IN  <<StrComp(SubSeq(s, 1, k))>> \o ParseVersion(SubSeq(s, k + 1, Len(s)))

\* Python's ordering of two str values made of lower-case letters.
RECURSIVE StrCmp(_, _)
StrCmp(a, b) ==
    IF a = <<>> /\ b = <<>> THEN "eq"
    ELSE IF a = <<>> THEN "lt"
    ELSE IF b = <<>> THEN "gt"
    ELSE IF Head(a) = Head(b) THEN StrCmp(Tail(a), Tail(b))
    ELSE IF Ord(Head(a)) < Ord(Head(b)) THEN "lt" ELSE "gt"

\* Ordering of two unequal components; int against str raises TypeError.
ItemCmp(x, y) ==
    IF x.kind = "int" /\ y.kind = "int"
    THEN IF x.n < y.n THEN "lt" ELSE "gt"
    ELSE IF x.kind = "str" /\ y.kind = "str" THEN StrCmp(x.s, y.s)
    ELSE "TypeError"

\* Python's ordering of two lists: the first differing pair decides, else
\* the shorter list is the smaller.
RECURSIVE ListCmp(_, _)
ListCmp(a, b) ==
    IF a = <<>> /\ b = <<>> THEN "eq"
    ELSE IF a = <<>> THEN "lt"
    ELSE IF b = <<>> THEN "gt"
    ELSE IF Head(a) = Head(b) THEN ListCmp(Tail(a), Tail(b))
    ELSE ItemCmp(Head(a), Head(b))

\* LooseVersion._cmp(LooseVersion(a), b)
VersionCmp(a, b) == ListCmp(ParseVersion(a), ParseVersion(b))

\* LooseVersion(a) >= b, (a) < (b), (a) <= (b), evaluated only where the
\* comparison does not raise.
VersionGe_Strict(a, b) == VersionCmp(a, b) = "gt"

VersionGe(a, b) == VersionCmp(a, b) \in {"gt", "eq"}

VersionLt(a, b) == VersionCmp(a, b) = "lt"

VersionLe_Strict(a, b) == VersionCmp(a, b) = "lt"

VersionLe(a, b) == VersionCmp(a, b) \in {"lt", "eq"}

\* ------------------------------------------------------------------ literals

V_1_5_4 == <<"1", ".", "5", ".", "4">>
V_1_5_3 == <<"1", ".", "5", ".", "3">>
V_0_6_24 == <<"0", ".", "6", ".", "2", "4">>
V_0_6_25 == <<"0", ".", "6", ".", "2", "5">>
V_0_6_rc1 == <<"0", ".", "6", ".", "r", "c", "1">>
V_4_15_0 == <<"4", ".", "1", "5", ".", "0">>
V_4_14_9 == <<"4", ".", "1", "4", ".", "9">>
V_4_15 == <<"4", ".", "1", "5">>
V_4_15_0rc1 == <<"4", ".", "1", "5", ".", "0", "r", "c", "1">>
V_4_dev0 == <<"4", ".", "d", "e", "v", "0">>
V_5_0 == <<"5", ".", "0">>
V_3_1_0 == <<"3", ".", "1", ".", "0">>
V_3_0_4 == <<"3", ".", "0", ".", "4">>
V_0_1_0 == <<"0", ".", "1", ".", "0">>
V_0_2_0 == <<"0", ".", "2", ".", "0">>
V_1_0_0 == <<"1", ".", "0", ".", "0">>
V_dev == <<"d", "e", "v">>

Pip == <<"pip">>
Distribute == <<"distribute">>
Breathe == <<"breathe">>
Sphinx == <<"sphinx">>
RepoBreathe == <<"bunbun", "/", "breathe">>

SphinxBuild == <<"sphinx-build">>
OptSphinxBuild == <<"/", "opt", "/", "bin", "/", "sphinx-build">>

\* build_docs' default doc_dir, os.path.dirname(os.path.realpath(__file__)):
\* an absolute path.
DocDir == <<"/", "repo", "/", "doc">>

\* The process's working directory, used by os.path.abspath.
Cwd == <<"/", "repo">>

\* create_build_env's default dirname.
EnvDir == <<"virtualenv">>

\* os.path.abspath(p), for paths without "." and ".." components.
Abspath(p) == IF IsAbs(p) THEN p ELSE PathJoin(Cwd, p)

LesscMessage ==
    <<"lessc not found; make sure that Less (http://lesscss.org/) is installed">>

\* How an external command can end: exit status 0, a non-zero exit status,
\* or a failure to launch (OSError) with the errno given.
Outcomes == {"ok", "nonzero", "ENOENT", "EACCES"}

NoExc == [type |-> "none", errno |-> "none"]

Exc(t) == [type |-> t, errno |-> "none"]

OSError(e) == [type |-> "OSError", errno |-> e]

\* ------------------------------------------------------------------ state

VARIABLES
    pc,                    \* position in the script
    venv_exists,           \* os.path.exists(dirname)
    activate_exists,       \* the activate_this.py script can be opened
    installed,             \* distribution name -> None or Some(version)
    argv,                  \* sys.argv[1:]
    versions,              \* the module-level versions list
    pi_package, pi_commit, pi_min_version, pi_ret,   \* pip_install's frame
    bd_sphinx_executable, bd_version, bd_work_dir,   \* build_docs' frame
    log,                   \* external commands launched so far, in order
    calls,                 \* pip_install calls made so far, in order
    out,                   \* lines printed so far
    html_done,             \* the render step completed
    exc,                   \* the exception that ended the run, if any
    result,                \* None or Some(value returned by build_docs)
    exit_status            \* -1 while running, then the process exit status

inputs == <<activate_exists, installed, argv, versions>>

pi_frame == <<pi_package, pi_commit, pi_min_version, pi_ret>>

bd_frame == <<bd_sphinx_executable, bd_version, bd_work_dir>>

vars == <<pc, venv_exists, inputs, pi_frame, bd_frame, log, calls, out,
          html_done, exc, result, exit_status>>

\* ------------------------------------------------------------------ control

\* Execution continues at position next; reaching "done" without an
\* exception is a normal end of the process (exit status 0).
Goto(next) ==
    /\ pc' = next
    /\ exc' = exc
    /\ exit_status' = IF next = "done" THEN 0 ELSE exit_status

\* An exception nothing catches: the run ends with a traceback, status 1.
Raise(e) ==
    /\ pc' = "done"
    /\ exc' = e
    /\ exit_status' = 1

\* sys.exit(1)
SysExit1 ==
    /\ pc' = "done"
    /\ exc' = Exc("SystemExit")
    /\ exit_status' = 1

Launch(step, cmd, o) == log' = Append(log, [step |-> step, cmd |-> cmd, outcome |-> o])

\* subprocess.call in place of check_call: the exit status is dropped.
CheckCall_StatusIgnored(step, cmd, o, next) ==
    /\ Launch(step, cmd, o)
    /\ IF o \in {"ok", "nonzero"} THEN Goto(next) ELSE Raise(OSError(o))

\* subprocess.check_call(cmd) ending as o, then on to position next.
CheckCall(step, cmd, o, next) ==
    /\ Launch(step, cmd, o)
    /\ IF o = "ok" THEN Goto(next)
       ELSE IF o = "nonzero" THEN Raise(Exc("CalledProcessError"))
       ELSE Raise(OSError(o))

\* ------------------------------------------------------------------ pip_install

PipIdentifier_Basename(package, commit) ==
    IF Truthy(commit)
    THEN <<"git+https://github.com/">> \o Basename(package)
             \o <<".git@">> \o commit[1]
    ELSE package

\* The identifier handed to "pip install".
PipIdentifier(package, commit) ==
    IF Truthy(commit)
    THEN <<"git+https://github.com/">> \o package \o <<".git@">> \o commit[1]
    ELSE package

PipInstallCmd(package) == <<<<"pip">>, <<"install">>, package>>

AlreadyInstalledMessage(package, min_version) ==
    package \o <<" ">> \o min_version \o <<" already installed">>

InstallingMessage(package) == <<"Installing ">> \o package

\* pip_install up to its decision: return early, or go on to install.
PiCheck ==
    /\ pc = "pi_check"
    /\ IF Truthy(pi_min_version)
       THEN LET dist == installed[Basename(pi_package)]
            IN  IF dist = None
                THEN Goto("pi_install") /\ out' = out
                ELSE IF VersionCmp(dist[1], pi_min_version[1]) = "TypeError"
                THEN Raise(Exc("TypeError")) /\ out' = out
                ELSE IF VersionGe(dist[1], pi_min_version[1])
                THEN /\ out' = Append(out, AlreadyInstalledMessage(
                                               pi_package, pi_min_version[1]))
                     /\ Goto(pi_ret)
                ELSE Goto("pi_install") /\ out' = out
       ELSE Goto("pi_install") /\ out' = out
    /\ UNCHANGED <<venv_exists, inputs, pi_frame, bd_frame, log, calls,
                   html_done, result>>

\* pip_install's installation.
PiInstall ==
    /\ pc = "pi_install"
    /\ LET package == PipIdentifier(pi_package, pi_commit)
       IN  /\ out' = Append(out, InstallingMessage(package))
           /\ \E o \in Outcomes :
                  CheckCall("pip_install", PipInstallCmd(package), o, pi_ret)
    /\ UNCHANGED <<venv_exists, inputs, pi_frame, bd_frame, calls, html_done,
                   result>>

\* A call pip_install(package, commit, min_version=min_version) that
\* returns to position ret.
CallPipInstall(package, commit, min_version, ret) ==
    /\ pi_package' = package
    /\ pi_commit' = commit
    /\ pi_min_version' = min_version
    /\ pi_ret' = ret
    /\ calls' = Append(calls, [package |-> package, commit |-> commit,
                               min_version |-> min_version])
    /\ Goto("pi_check")

\* ------------------------------------------------------------------ create_build_env

\* dirname is absent: virtualenv creates it.
CbeVirtualenv ==
    /\ pc = "cbe_start"
    /\ ~venv_exists
    /\ \E o \in Outcomes :
           /\ CheckCall("virtualenv", <<<<"virtualenv">>, EnvDir>>, o, "cbe_activate")
           /\ venv_exists' = (o = "ok")
    /\ UNCHANGED <<inputs, pi_frame, bd_frame, calls, out, html_done, result>>

\* dirname is there already.
CbeVenvPresent ==
    /\ pc = "cbe_start"
    /\ venv_exists
    /\ Goto("cbe_activate")
    /\ UNCHANGED <<venv_exists, inputs, pi_frame, bd_frame, log, calls, out,
                   html_done, result>>

\* open(activate_this_file) and exec of what it holds.
CbeActivate ==
    /\ pc = "cbe_activate"
    /\ IF activate_exists THEN Goto("cbe_pip") ELSE Raise(OSError("ENOENT"))
    /\ UNCHANGED <<venv_exists, inputs, pi_frame, bd_frame, log, calls, out,
                   html_done, result>>

\* pip is upgraded when older than 1.5.4.
CbePip ==
    /\ pc = "cbe_pip"
    /\ LET dist == installed[Pip]
       IN  IF dist = None
           THEN Raise(Exc("DistributionNotFound")) /\ UNCHANGED <<out, log>>
           ELSE IF VersionCmp(dist[1], V_1_5_4) = "TypeError"
           THEN Raise(Exc("TypeError")) /\ UNCHANGED <<out, log>>
           ELSE IF VersionLt(dist[1], V_1_5_4)
           THEN /\ out' = Append(out, <<"Updating pip">>)
                /\ \E o \in Outcomes :
                       CheckCall("pip_upgrade",
                                 <<<<"pip">>, <<"install">>, <<"--upgrade">>, Pip>>,
                                 o, "cbe_distribute")
           ELSE Goto("cbe_distribute") /\ UNCHANGED <<out, log>>
    /\ UNCHANGED <<venv_exists, inputs, pi_frame, bd_frame, calls, html_done,
                   result>>

\* distribute is upgraded when installed and not newer than 0.6.24.
CbeDistribute ==
    /\ pc = "cbe_distribute"
    /\ LET dist == installed[Distribute]
       IN  IF dist = None
           THEN Goto("cbe_breathe") /\ UNCHANGED <<out, log>>
           ELSE IF VersionCmp(dist[1], V_0_6_24) = "TypeError"
           THEN Raise(Exc("TypeError")) /\ UNCHANGED <<out, log>>
           ELSE IF VersionLe(dist[1], V_0_6_24)
           THEN /\ out' = Append(out, <<"Updating distribute">>)
                /\ \E o \in Outcomes :
                       CheckCall("distribute_upgrade",
                                 <<<<"pip">>, <<"install">>, <<"--upgrade">>,
                                   Distribute>>,
                                 o, "cbe_breathe")
           ELSE Goto("cbe_breathe") /\ UNCHANGED <<out, log>>
    /\ UNCHANGED <<venv_exists, inputs, pi_frame, bd_frame, calls, html_done,
                   result>>

CbeBreathe ==
    /\ pc = "cbe_breathe"
    /\ CallPipInstall(Breathe, None, Some(V_4_15_0), "cbe_sphinx")
    /\ UNCHANGED <<venv_exists, inputs, bd_frame, log, out, html_done, result>>

CbeSphinx ==
    /\ pc = "cbe_sphinx"
    /\ CallPipInstall(Sphinx, None, Some(V_3_1_0), "main_build")
    /\ UNCHANGED <<venv_exists, inputs, bd_frame, log, out, html_done, result>>

\* ------------------------------------------------------------------ build_docs

\* How many of the known versions the version picker offers.
NVersionsShown == 3

MainVersions_First(vs) == Reverse(SubSeq(vs, 1, IF Len(vs) < NVersionsShown
                                                THEN Len(vs) ELSE NVersionsShown))

\* main_versions = reversed(versions[-3:])
MainVersions(vs) == Reverse(LastN(vs, NVersionsShown))

DoxyxmlDir == PathJoin(DocDir, <<"doxyxml">>)

HtmlDir_Absolute(work_dir) == Abspath(PathJoin(work_dir, <<"html">>))

\* html_dir = os.path.join(work_dir, 'html')
HtmlDir(work_dir) == PathJoin(work_dir, <<"html">>)

DoxygenCmd == <<<<"doxygen">>, <<"-">>>>

\* The command of the render step.
SphinxCmd(sphinx_executable, version, work_dir, vs) ==
    << <<"sphinx-build">>,
       <<"-Dbreathe_projects.format=">> \o Abspath(DoxyxmlDir),
       <<"-Dversion=">> \o version,
       <<"-Drelease=">> \o version,
       <<"-Aversion=">> \o version,
       <<"-Aversions=">> \o StrJoin(<<",">>, MainVersions(vs)),
       <<"-b">>, <<"html">>, DocDir, HtmlDir(work_dir) >>

LesscCmd(work_dir) ==
    << <<"lessc">>, <<"--clean-css">>,
       <<"--include-path=">> \o PathJoin(DocDir, <<"bootstrap">>),
       PathJoin(DocDir, <<"interval_dict.less">>),
       PathJoin(PathJoin(HtmlDir(work_dir), <<"_static">>), <<"interval_dict.css">>) >>

\* The returncode test left out: the renderer runs whatever doxygen did.
BdDoxygen_Unchecked ==
    /\ pc = "bd_doxygen"
    /\ \E o \in Outcomes :
           /\ Launch("doxygen", DoxygenCmd, o)
           /\ IF o \in {"ENOENT", "EACCES"} THEN Raise(OSError(o))
              ELSE Goto("bd_sphinx")
    /\ UNCHANGED <<venv_exists, inputs, pi_frame, bd_frame, calls, out,
                   html_done, result>>

\* Step 1: Popen(['doxygen', '-']), communicate(), the returncode test.
BdDoxygen ==
    /\ pc = "bd_doxygen"
    /\ \E o \in Outcomes :
           /\ Launch("doxygen", DoxygenCmd, o)
           /\ IF o \in {"ENOENT", "EACCES"} THEN Raise(OSError(o))
              ELSE IF o # "ok" THEN Raise(Exc("CalledProcessError"))
              ELSE Goto("bd_sphinx")
    /\ UNCHANGED <<venv_exists, inputs, pi_frame, bd_frame, calls, out,
                   html_done, result>>

\* Step 2: check_call of the renderer.
BdSphinx ==
    /\ pc = "bd_sphinx"
    /\ \E o \in Outcomes :
           /\ CheckCall("render",
                        SphinxCmd(bd_sphinx_executable, bd_version, bd_work_dir,
                                  versions),
                        o, "bd_lessc")
           /\ html_done' = (html_done \/ o = "ok")
    /\ UNCHANGED <<venv_exists, inputs, pi_frame, bd_frame, calls, out, result>>

\* A missing lessc is tolerated: the build goes on without the stylesheet.
BdLessc_Tolerant ==
    /\ pc = "bd_lessc"
    /\ \E o \in Outcomes :
           /\ Launch("lessc", LesscCmd(bd_work_dir), o)
           /\ IF o = "ok" \/ o = "ENOENT"
              THEN /\ result' = Some(HtmlDir(bd_work_dir))
                   /\ out' = out
                   /\ Goto("done")
              ELSE IF o = "nonzero"
              THEN Raise(Exc("CalledProcessError")) /\ UNCHANGED <<out, result>>
              ELSE Raise(OSError(o)) /\ UNCHANGED <<out, result>>
    /\ UNCHANGED <<venv_exists, inputs, pi_frame, bd_frame, calls, html_done>>

\* The errno test left out: every OSError is reported as a missing lessc.
BdLessc_AnyOSError ==
    /\ pc = "bd_lessc"
    /\ \E o \in Outcomes :
           /\ Launch("lessc", LesscCmd(bd_work_dir), o)
           /\ IF o = "ok"
              THEN /\ result' = Some(HtmlDir(bd_work_dir))
                   /\ out' = out
                   /\ Goto("done")
              ELSE IF o = "nonzero"
              THEN Raise(Exc("CalledProcessError")) /\ UNCHANGED <<out, result>>
              ELSE /\ out' = Append(out, LesscMessage)
                   /\ result' = result
                   /\ SysExit1
    /\ UNCHANGED <<venv_exists, inputs, pi_frame, bd_frame, calls, html_done>>

\* Step 3: check_call of lessc inside try/except OSError, then the return.
BdLessc ==
    /\ pc = "bd_lessc"
    /\ \E o \in Outcomes :
           /\ Launch("lessc", LesscCmd(bd_work_dir), o)
           /\ IF o = "ok"
              THEN /\ result' = Some(HtmlDir(bd_work_dir))
                   /\ out' = out
                   /\ Goto("done")
              ELSE IF o = "nonzero"
              THEN Raise(Exc("CalledProcessError")) /\ UNCHANGED <<out, result>>
              ELSE IF o # "ENOENT"
              THEN Raise(OSError(o)) /\ UNCHANGED <<out, result>>
              ELSE /\ out' = Append(out, LesscMessage)
                   /\ result' = result
                   /\ SysExit1
    /\ UNCHANGED <<venv_exists, inputs, pi_frame, bd_frame, calls, html_done>>

\* ------------------------------------------------------------------ __main__

\* build_docs(sys.argv[1], sys.argv[2]), after create_build_env() returned.
MainBuild ==
    /\ pc = "main_build"
    /\ IF Len(argv) < 2
       THEN Raise(Exc("IndexError")) /\ UNCHANGED bd_frame
       ELSE /\ bd_sphinx_executable' = argv[1]
            /\ bd_version' = argv[2]
            /\ bd_work_dir' = <<".">>
            /\ Goto("bd_doxygen")
    /\ UNCHANGED <<venv_exists, inputs, pi_frame, log, calls, out, html_done,
                   result>>

\* ------------------------------------------------------------------ inputs

Option(S) == {None} \cup {Some(v) : v \in S}

Executables == {SphinxBuild, OptSphinxBuild}

VersionArgs == {V_dev, V_0_2_0}

ArgvSet == {<<>>} \cup {<<e>> : e \in Executables}
               \cup {<<e, v>> : e \in Executables, v \in VersionArgs}

\* Installed distributions a run of the script may find.
InstalledMain ==
    { [d \in {Pip, Distribute, Breathe, Sphinx} |->
          IF d = Pip THEN p ELSE IF d = Distribute THEN di
          ELSE IF d = Breathe THEN b ELSE sp] :
      p \in Option({V_1_5_3, V_1_5_4}),
      di \in Option({V_0_6_24, V_0_6_25, V_0_6_rc1}),
      b \in Option({V_4_14_9, V_4_15_0, V_4_dev0}),
      sp \in Option({V_3_0_4, V_3_1_0}) }

\* Installed distributions a single pip_install call may find.
InstalledPip ==
    { [d \in {Breathe, Sphinx} |-> IF d = Breathe THEN b ELSE sp] :
      b \in Option({V_4_14_9, V_4_15_0, V_4_15, V_4_15_0rc1, V_4_dev0, V_5_0,
                    V_3_1_0}),
      sp \in Option({V_3_0_4, V_3_1_0}) }

Packages == {Breathe, Sphinx, RepoBreathe}

Commits == {None, Some(<<>>), Some(<<"master">>), Some(<<"0a1b2c3">>)}

MinVersions == {None, Some(<<>>), Some(V_4_15_0), Some(V_3_1_0)}

WorkDirs == {<<".">>, <<"build">>, <<"/", "tmp", "/", "out">>,
             <<"/", "tmp", "/", "out", "/">>}

VersionIds == {V_0_1_0, V_0_2_0, V_1_0_0}

\* Longest versions list tried.
MaxVersions == 4

VersionLists == UNION {[1..n -> VersionIds] : n \in 0..MaxVersions}

\* What every run starts from, whatever is called.
Fresh ==
    /\ log = <<>>
    /\ calls = <<>>
    /\ out = <<>>
    /\ html_done = FALSE
    /\ exc = NoExc
    /\ result = None
    /\ exit_status = -1

NoPiFrame ==
    /\ pi_package = <<>>
    /\ pi_commit = None
    /\ pi_min_version = None
    /\ pi_ret = "done"

NoBdFrame ==
    /\ bd_sphinx_executable = SphinxBuild
    /\ bd_version = V_dev
    /\ bd_work_dir = <<".">>

\* The script run as __main__.
Init ==
    /\ pc = "cbe_start"
    /\ venv_exists \in BOOLEAN
    /\ activate_exists \in BOOLEAN
    /\ installed \in InstalledMain
    /\ argv \in ArgvSet
    /\ versions = <<V_0_1_0>>
    /\ NoPiFrame
    /\ NoBdFrame
    /\ Fresh

Next ==
    \/ CbeVirtualenv
    \/ CbeVenvPresent
    \/ CbeActivate
    \/ CbePip
    \/ CbeDistribute
    \/ CbeBreathe
    \/ CbeSphinx
    \/ PiCheck
    \/ PiInstall
    \/ MainBuild
    \/ BdDoxygen
    \/ BdSphinx
    \/ BdLessc

Spec == Init /\ [][Next]_vars

\* One call pip_install(package, commit, min_version=min_version).
InitPip ==
    /\ pc = "pi_check"
    /\ venv_exists = TRUE
    /\ activate_exists = TRUE
    /\ installed \in InstalledPip
    /\ argv = <<>>
    /\ versions = <<V_0_1_0>>
    /\ pi_package \in Packages
    /\ pi_commit \in Commits
    /\ pi_min_version \in MinVersions
    /\ pi_ret = "done"
    /\ NoBdFrame
    /\ Fresh

NextPip == PiCheck \/ PiInstall

SpecPip == InitPip /\ [][NextPip]_vars

\* One call build_docs(sphinx_executable, version, work_dir=work_dir), with
\* the versions list holding anything.
InitDocs ==
    /\ pc = "bd_doxygen"
    /\ venv_exists = TRUE
    /\ activate_exists = TRUE
    /\ installed \in {[d \in {Breathe, Sphinx} |->
                          IF d = Breathe THEN Some(V_4_15_0) ELSE Some(V_3_1_0)]}
    /\ argv = <<>>
    /\ versions \in VersionLists
    /\ NoPiFrame
    /\ bd_sphinx_executable \in Executables
    /\ bd_version \in VersionArgs
    /\ bd_work_dir \in WorkDirs
    /\ Fresh

NextDocs == BdDoxygen \/ BdSphinx \/ BdLessc

SpecDocs == InitDocs /\ [][NextDocs]_vars

\* ------------------------------------------------------------------ properties

Launched(step) == {i \in DOMAIN log : log[i].step = step}

Printed(line) == \E j \in DOMAIN out : out[j] = line

\* How many times "pip install <package>" was launched.
Installs == Cardinality(Launched("pip_install"))

\* The text after the first atom of a command-line argument, split at ",".
RECURSIVE SplitComma(_)
SplitComma(s) ==
    IF s = <<>> THEN <<>>
    ELSE LET k == IF \E j \in DOMAIN s : s[j] = ","
                  THEN CHOOSE j \in DOMAIN s :
                           s[j] = "," /\ \A h \in 1..(j - 1) : s[h] # ","
                  ELSE Len(s) + 1
         IN  <<SubSeq(s, 1, k - 1)>>
                 \o (IF k > Len(s) THEN <<>>
                     ELSE IF k = Len(s) THEN << <<>> >>
                     ELSE SplitComma(SubSeq(s, k + 1, Len(s))))

\* The entries of the -Aversions= argument of launch i.
PickerEntries(i) == SplitComma(Tail(log[i].cmd[6]))

\* C1: in build_docs, once doxygen has exited with a non-zero status no
\* other command is launched (neither sphinx-build nor lessc): the doxygen
\* launch stays the last one, and the run has ended with CalledProcessError
\* without returning a path.
C1_DoxygenFailureStopsBuild ==
    \A i \in Launched("doxygen") :
        log[i].outcome = "nonzero"
            => /\ i = Len(log)
               /\ Launched("render") = {}
               /\ Launched("lessc") = {}
               /\ pc = "done"
               /\ exc.type = "CalledProcessError"
               /\ result = None

C1_Witness ==
    /\ pc = "done"
    /\ \E i \in Launched("doxygen") : log[i].outcome = "nonzero"

\* The minimum-version test of the pip_install call under way is passed: a
\* non-empty min_version, the base name installed, its version not below it.
MinVersionMet ==
    /\ pi_min_version # None
    /\ pi_min_version[1] # <<>>
    /\ installed[Basename(pi_package)] # None
    /\ VersionCmp(installed[Basename(pi_package)][1], pi_min_version[1])
           \in {"gt", "eq"}

\* pip_install returned without launching pip.
InstallSkipped ==
    /\ pc = "done"
    /\ exc = NoExc
    /\ Installs = 0
    /\ pi_min_version # None
    /\ Printed(AlreadyInstalledMessage(pi_package, pi_min_version[1]))

\* C2: a pip_install call skips "pip install" exactly when a minimum
\* version is given, the package's base name is installed and the installed
\* version is greater than or equal to it (4.15.0 against 4.15.0 skips,
\* 4.14.9 against 4.15.0 installs); without a minimum version, or with the
\* package not installed, "pip install" is launched exactly once.
C2_SkipIffMinVersionMet ==
    pc = "done"
        => /\ InstallSkipped <=> MinVersionMet
           /\ Installs <= 1
           /\ (pi_min_version = None \/ pi_min_version[1] = <<>>
                   \/ installed[Basename(pi_package)] = None)
                  => Installs = 1
           /\ (pi_min_version = Some(V_4_15_0)
                   /\ installed[Basename(pi_package)] = Some(V_4_15_0))
                  => InstallSkipped
           /\ (pi_min_version = Some(V_4_15_0)
                   /\ installed[Basename(pi_package)] = Some(V_4_14_9))
                  => Installs = 1

C2_Witness ==
    /\ InstallSkipped
    /\ pi_min_version = Some(V_4_15_0)
    /\ installed[Basename(pi_package)] = Some(V_4_15_0)

\* C3: whenever pip_install launches "pip install", the identifier it
\* passes is git+https://github.com/<package>.git@<commit>, built from the
\* package argument as given, when a commit is supplied, and the package
\* argument itself when none is.
C3_IdentifierForm ==
    \A i \in Launched("pip_install") :
        /\ Len(log[i].cmd) = 3
        /\ log[i].cmd[1] = <<"pip">>
        /\ log[i].cmd[2] = <<"install">>
        /\ (pi_commit # None /\ pi_commit[1] # <<>>)
               => log[i].cmd[3] = <<"git+https://github.com/">> \o pi_package
                                      \o <<".git@">> \o pi_commit[1]
        /\ (pi_commit = None \/ pi_commit[1] = <<>>) => log[i].cmd[3] = pi_package
        /\ (pi_package = RepoBreathe /\ pi_commit = Some(<<"master">>))
               => log[i].cmd[3] = <<"git+https://github.com/", "bunbun", "/",
                                    "breathe", ".git@", "master">>

C3_Witness ==
    /\ Launched("pip_install") # {}
    /\ pi_package = RepoBreathe
    /\ pi_commit = Some(<<"master">>)

\* C4 as stated: the version-picker list has at most 3 entries, is the last
\* min(3, length) entries of the versions list, and is in the list's own
\* (oldest-to-newest) order.
C4_PickerAscending ==
    \A i \in Launched("render") :
        LET e == PickerEntries(i)
            n == Len(versions)
        IN  /\ Len(e) <= 3
            /\ Len(e) = IF n < 3 THEN n ELSE 3
            /\ \A k \in 1..Len(e) : e[k] = versions[n - Len(e) + k]

\* C4 as amended: the version-picker list has at most 3 entries, is the
\* last min(3, length) entries of the versions list, and is in the reverse
\* of the list's order (newest first).
C4_PickerNewestFirst ==
    \A i \in Launched("render") :
        LET e == PickerEntries(i)
            n == Len(versions)
        IN  /\ Len(e) <= 3
            /\ Len(e) = IF n < 3 THEN n ELSE 3
            /\ \A k \in 1..Len(e) : e[k] = versions[n - k + 1]

C4_Witness ==
    /\ Launched("render") # {}
    /\ Len(versions) = 4
    /\ versions[2] # versions[4]
    /\ versions[1] # versions[2]

\* C5: when doxygen and sphinx-build succeeded and lessc cannot be launched
\* because it is not found (ENOENT), the render step has completed, the
\* "lessc not found" line is printed, the process exits with status 1 and
\* build_docs returns no path.
C5_LesscMissingExits1 ==
    \A i \in Launched("lessc") :
        log[i].outcome = "ENOENT"
            => /\ \A j \in Launched("doxygen") \cup Launched("render") :
                      log[j].outcome = "ok"
               /\ Launched("render") # {}
               /\ html_done
               /\ Printed(LesscMessage)
               /\ pc = "done"
               /\ exc.type = "SystemExit"
               /\ exit_status = 1
               /\ result = None

C5_Witness ==
    /\ pc = "done"
    /\ \E i \in Launched("lessc") : log[i].outcome = "ENOENT"

\* C6: the command launched by the render step has the rendering-tool
\* executable given as the entry point's first argument as its executable.
C6_RenderUsesGivenExecutable ==
    \A i \in Launched("render") : log[i].cmd[1] = argv[1]

\* C7 as stated: whenever build_docs returns, what it returns is an
\* absolute path, whatever work_dir is.
C7_ReturnsAbsolutePath ==
    result # None => IsAbs(result[1])

\* C7 as amended: whenever build_docs returns (all three tools succeeded),
\* what it returns is work_dir joined with "html": absolute exactly when
\* work_dir is absolute, and the relative "./html" for the default ".".
C7_ReturnsWorkDirHtml ==
    result # None
        => /\ \A i \in DOMAIN log : log[i].outcome = "ok"
           /\ Len(log) = 3
           /\ result[1] = (IF Last(bd_work_dir) = "/"
                           THEN bd_work_dir \o <<"html">>
                           ELSE bd_work_dir \o <<"/", "html">>)
           /\ IsAbs(result[1]) <=> IsAbs(bd_work_dir)
           /\ bd_work_dir = <<".">> => result[1] = <<".", "/", "html">>

C7_Witness ==
    /\ result # None
    /\ bd_work_dir = <<".">>

\* The place of a launch in the script's order of external commands.
Rank(e) ==
    CASE e.step = "virtualenv" -> 1
      [] e.step = "pip_upgrade" -> 2
      [] e.step = "distribute_upgrade" -> 3
      [] e.step = "pip_install" -> IF e.cmd[3] = Breathe THEN 4 ELSE 5
      [] e.step = "doxygen" -> 6
      [] e.step = "render" -> 7
      [] e.step = "lessc" -> 8

\* C8: in a run of the script the external commands are launched in the
\* order virtualenv (only when the environment directory is absent), the
\* pip commands of provisioning, doxygen, sphinx-build, lessc, none of them
\* twice; once a command has exited non-zero nothing more is launched and
\* the run has ended in failure.
C8_InOrderAndStopOnFailure ==
    /\ [](/\ \A i, j \in DOMAIN log : i < j => Rank(log[i]) < Rank(log[j])
          /\ \A i \in DOMAIN log :
                 log[i].outcome = "nonzero"
                     => /\ i = Len(log)
                        /\ pc = "done"
                        /\ exc.type = "CalledProcessError"
                        /\ exit_status = 1
          /\ exit_status = 0 => \A i \in DOMAIN log : log[i].outcome = "ok")
    /\ [][(log' # log /\ Last(log').step = "virtualenv") => ~venv_exists]_vars
    /\ [][log' = log \/ (Len(log') = Len(log) + 1
                            /\ SubSeq(log', 1, Len(log)) = log)]_vars

C8_Witness ==
    /\ pc = "done"
    /\ Len(log) >= 3
    /\ log[1].step = "virtualenv"
    /\ Last(log).step = "render"
    /\ Last(log).outcome = "nonzero"

\* C9: when launching lessc fails with an OSError other than "not found",
\* that error ends build_docs unchanged: the "lessc not found" line is not
\* printed, there is no sys.exit(1), and no path is returned.
C9_OtherOSErrorReraised ==
    \A i \in Launched("lessc") :
        log[i].outcome = "EACCES"
            => /\ pc = "done"
               /\ exc = OSError("EACCES")
               /\ ~Printed(LesscMessage)
               /\ result = None

C9_Witness ==
    /\ pc = "done"
    /\ \E i \in Launched("lessc") : log[i].outcome = "EACCES"

BreatheCall == [package |-> Breathe, commit |-> None, min_version |-> Some(V_4_15_0)]

SphinxCall == [package |-> Sphinx, commit |-> None, min_version |-> Some(V_3_1_0)]

\* The step taken launches "pip install --upgrade distribute".
UpgradesDistribute ==
    /\ Len(log') = Len(log) + 1
    /\ Last(log').cmd = <<<<"pip">>, <<"install">>, <<"--upgrade">>, Distribute>>

\* C10: create_build_env upgrades distribute exactly when it is installed
\* with a version at or below 0.6.24 (0.6.24 upgrades, 0.6.25 does not);
\* when it is not installed nothing is launched and nothing raised, and
\* provisioning goes on to pip_install of breathe (min 4.15.0) and then of
\* sphinx (min 3.1.0).
C10_DistributeUpgrade ==
    /\ [][pc = "cbe_distribute"
             => LET dist == installed[Distribute]
                IN  /\ UpgradesDistribute
                           <=> (dist # None
                                  /\ VersionCmp(dist[1], V_0_6_24) \in {"lt", "eq"})
                    /\ dist = Some(V_0_6_24) => UpgradesDistribute
                    /\ dist = Some(V_0_6_25) => ~UpgradesDistribute
                    /\ dist = None => /\ log' = log
                                      /\ exc' = NoExc
                                      /\ pc' = "cbe_breathe"]_vars
    /\ [][(pc = "cbe_breathe" => calls' = <<BreatheCall>> /\ pc' = "pi_check")
             /\ (pc = "cbe_sphinx" => calls' = <<BreatheCall, SphinxCall>>
                                          /\ pc' = "pi_check")
             /\ (pc = "pi_check" /\ pi_package = Breathe /\ exc' = NoExc
                     => pc' \in {"pi_install", "cbe_sphinx"})
             /\ (pc = "pi_install" /\ pi_package = Breathe /\ exc' = NoExc
                     => pc' = "cbe_sphinx")]_vars

C10_Witness ==
    /\ installed[Distribute] = Some(V_0_6_24)
    /\ Launched("distribute_upgrade") # {}
    /\ calls = <<BreatheCall, SphinxCall>>

====
